---- MODULE Spec2Model ----
(***************************************************************************)
(* A model of steppe.py: the affine residual solver (remove_affine,        *)
(* remove_linear), the parameter adapter (make_vector2dictfunc), the       *)
(* multi-strategy optimizers (search, fine), the parameter encoding of the *)
(* fine-tune loop (paramsToInit, listToParams), its tick sets (fineLoad,   *)
(* the closure minimize of fine) and the script's repeated calls of fine.  *)
(*                                                                         *)
(* Numbers.  numpy's float64 arrays are modelled by exact rationals        *)
(* <<n, d>> (d > 0, lowest terms): "equal" in a formula below stands for   *)
(* "equal up to rounding" in the program.  A matrix is a record            *)
(* [nr, nc, e] with e[i][j] its entries, so that a (d x 0) array keeps its *)
(* shape as numpy's does.  A raised Python exception is the record         *)
(* [status |-> "error", kind |-> <exception class>].                       *)
(***************************************************************************)
EXTENDS Integers, Sequences, FiniteSets, TLC

VARIABLES
    unit,          \* the part of the program that runs: solver, adapter, ...
    p, q,          \* solver: the two arrays of the current call site
    truth,         \* solver: the affine map (A*, t*) p was made from, or None
    cache,         \* solver: the q_factor the caller holds, or None
    res,           \* solver: what the last call of a residual solver gave
    string,        \* adapter: make_vector2dictfunc's parameter-name string
    initvec,       \* adapter: its initvec argument
    vec2dictfunc,  \* adapter: what make_vector2dictfunc returned
    mapping,       \* adapter: what the last call of vec2dictfunc gave
    entry, sse,    \* optimizer: the entry point running, fine's cost mode
    objective,     \* optimizer: the closure minimize, as a table
    init,          \* optimizer: the initial guess
    sols,          \* optimizer: the list sols
    pc,            \* optimizer: the statement about to run
    ret,           \* optimizer: the value returned (of fine, its first part)
    transform,     \* optimizer: the second part of what fine returned, (A, b, p)
    last,          \* optimizer: what the script's previous fine call returned
    iter,          \* optimizer: the worst-case calls of fine the script has made
    table,         \* ticks: the rows of the ticks file
    ticks,         \* ticks: what fineLoad returned
    cost,          \* ticks: the last evaluation of fine's closure minimize
    args,          \* encoding: the A, b and central longitude at hand
    encoded,       \* encoding: what paramsToInit returned
    decoded        \* encoding: what listToParams returned

solverVars == <<p, q, truth, cache, res>>
adapterVars == <<string, initvec, vec2dictfunc, mapping>>
optimVars == <<entry, sse, objective, init, sols, pc, ret, transform, last, iter>>
tickVars == <<table, ticks, cost>>
codecVars == <<args, encoded, decoded>>
vars == <<unit, p, q, truth, cache, res, string, initvec, vec2dictfunc, mapping,
          entry, sse, objective, init, sols, pc, ret, transform, last, iter,
          table, ticks, cost, args, encoded, decoded>>

\* Python's None, and a variable not assigned yet
None == [none |-> TRUE]
Unset == [unset |-> TRUE]

-----------------------------------------------------------------------------
(* Exact rational arithmetic, standing for float64.                        *)

Abs(n) == IF n < 0 THEN -n ELSE n

RECURSIVE GCD(_, _)
GCD(a, b) == IF b = 0 THEN a ELSE GCD(b, a % b)

Norm(n, d) ==
    LET g == GCD(Abs(n), Abs(d))
        s == IF d < 0 THEN -1 ELSE 1
    IN  <<(s * n) \div g, (s * d) \div g>>

R(n) == <<n, 1>>

\* (whole numbers are added and multiplied without reducing)
RAdd(a, b) ==
    IF a[2] = 1 /\ b[2] = 1 THEN <<a[1] + b[1], 1>>
    ELSE Norm(a[1] * b[2] + b[1] * a[2], a[2] * b[2])
RNeg(a) == <<-a[1], a[2]>>
RSub(a, b) == RAdd(a, RNeg(b))
RMul(a, b) ==
    IF a[2] = 1 /\ b[2] = 1 THEN <<a[1] * b[1], 1>>
    ELSE Norm(a[1] * b[1], a[2] * b[2])
RDiv(a, b) == Norm(a[1] * b[2], a[2] * b[1])

RECURSIVE RSum(_)
RSum(s) == IF Len(s) = 0 THEN R(0) ELSE RAdd(s[Len(s)], RSum(SubSeq(s, 1, Len(s) - 1)))

-----------------------------------------------------------------------------
(* numpy array operations on 2-D arrays.                                   *)

\* TLC keeps a function constructor as a closure and evaluates it again at every
\* application; comparing it makes it a table, computed once.
Table(f) == IF f = f THEN f ELSE f

Mat(nr, nc, f(_, _)) ==
    [nr |-> nr, nc |-> nc,
     e |-> Table([i \in 1..nr |-> [j \in 1..nc |-> f(i, j)]])]

Shape(M) == <<M.nr, M.nc>>

\* an integer-valued array as a float array
AsFloat(M) == Mat(M.nr, M.nc, LAMBDA i, j: R(M.e[i][j]))

Transpose(M) == Mat(M.nc, M.nr, LAMBDA i, j: M.e[j][i])

Eye(n) == Mat(n, n, LAMBDA i, j: IF i = j THEN R(1) ELSE R(0))

Zeros(nr, nc) == Mat(nr, nc, LAMBDA i, j: R(0))

\* np.dot of two 2-D arrays whose inner dimensions agree
Dot(A, B) ==
    Mat(A.nr, B.nc,
        LAMBDA i, j: RSum([k \in 1..A.nc |-> RMul(A.e[i][k], B.e[k][j])]))

Scale(c, M) == Mat(M.nr, M.nc, LAMBDA i, j: RMul(c, M.e[i][j]))

MAdd(A, B) == Mat(A.nr, A.nc, LAMBDA i, j: RAdd(A.e[i][j], B.e[i][j]))

Trace(M) == RSum([k \in 1..M.nr |-> M.e[k][k]])

\* np.vstack([q, np.ones_like(q[0, :])])
VStackOnes(M) ==
    Mat(M.nr + 1, M.nc, LAMBDA i, j: IF i <= M.nr THEN M.e[i][j] ELSE R(1))

-----------------------------------------------------------------------------
(* The decompositions remove_affine and remove_linear call.                *)

Raise(kind) == [status |-> "error", kind |-> kind]

\* Faddeev-LeVerrier: the steps 1..k, step m holding M_m and the coefficient c_m
\* of x^(n-m) in det(xI - S)
RECURSIVE CharSteps(_, _)
CharSteps(S, k) ==
    IF k = 1
    THEN <<[M |-> Eye(S.nr), c |-> RNeg(Trace(S))]>>
    ELSE LET before == CharSteps(S, k - 1)
             prev == before[k - 1]
             M == MAdd(Dot(S, prev.M), Scale(prev.c, Eye(S.nr)))
         IN  Append(before, [M |-> M, c |-> RDiv(RNeg(Trace(Dot(S, M))), R(k))])

\* The Moore-Penrose inverse of a symmetric matrix S of rank r, whose nonzero
\* eigenvalues are the roots of x^r + c_1 x^(r-1) + .. + c_r:
\* S+ = S (M_r / c_r)^2.
PinvSym(S) ==
    LET fl == CharSteps(S, S.nr)
        nz == {k \in 1..S.nr : fl[k].c[1] # 0}
    IN  IF nz = {}
        THEN Zeros(S.nr, S.nc)
        ELSE LET r == CHOOSE k \in nz : \A m \in nz : m <= k
                 U == Scale(RDiv(R(1), fl[r].c), fl[r].M)
             IN  Dot(S, Dot(U, U))

\* numpy.linalg.lstsq(A, B)[0]: the least-squares solution of minimum norm, A+ B,
\* where A+ = A's own inverse of Moore and Penrose when A is symmetric and
\* (A^T A)+ A^T in general.
LstSq(A, B) ==
    IF A.nr # B.nr
    THEN Raise("LinAlgError")
    ELSE LET At == Transpose(A)
         IN  [status |-> "ok",
              x |-> IF At = A THEN Dot(PinvSym(A), B)
                    ELSE Dot(PinvSym(Dot(At, A)), Dot(At, B))]

\* Cholesky by columns in its square-root-free form Q = L D L^T (scipy's factor is
\* D^(1/2) L^T); a pivot that is not positive is LAPACK's "leading minor not
\* positive definite".  Only the upper triangle of Q is read (lower=False).
RECURSIVE CholColumns(_, _, _, _)
CholColumns(Q, j, L, D) ==
    IF j > Q.nr
    THEN [status |-> "ok", n |-> Q.nr, L |-> L, D |-> D]
    ELSE LET dj == RSub(Q.e[j][j],
                        RSum([k \in 1..(j - 1) |->
                                 RMul(RMul(L[j][k], L[j][k]), D[k])]))
         IN  IF dj[1] <= 0
             THEN Raise("LinAlgError")
             ELSE LET col(i) ==
                          RDiv(RSub(Q.e[j][i],
                                    RSum([k \in 1..(j - 1) |->
                                             RMul(RMul(L[i][k], L[j][k]), D[k])])),
                               dj)
                      L2 == Table([i \in 1..Q.nr |-> [c \in 1..Q.nr |->
                                IF c # j THEN L[i][c]
                                ELSE IF i = j THEN R(1)
                                ELSE IF i > j THEN col(i) ELSE R(0)]])
                  IN  CholColumns(Q, j + 1, L2, Append(D, dj))

\* scipy.linalg.cho_factor(Q)
cho_factor(Q) ==
    CholColumns(Q, 1, Table([i \in 1..Q.nr |-> [c \in 1..Q.nr |-> R(0)]]), <<>>)

\* scipy.linalg.cho_solve(q_factor, B): forward, diagonal and back substitution
cho_solve(f, B) ==
    IF f.n # B.nr
    THEN Raise("ValueError")
    ELSE LET n == f.n
             Column(c) ==
                 LET y[i \in 1..n] ==
                         RSub(B.e[i][c],
                              RSum([k \in 1..(i - 1) |-> RMul(f.L[i][k], y[k])]))
                     x[i \in 1..n] ==
                         RSub(RDiv(y[n + 1 - i], f.D[n + 1 - i]),
                              RSum([k \in 1..(i - 1) |->
                                       RMul(f.L[n + 1 - k][n + 1 - i], x[k])]))
                 IN  [i \in 1..n |-> x[n + 1 - i]]
             cols == Table([c \in 1..B.nc |-> Column(c)])
         IN  [status |-> "ok", x |-> Mat(n, B.nc, LAMBDA i, j: cols[j][i])]

-----------------------------------------------------------------------------
(* remove_affine and remove_linear.                                        *)

\* AffineResult with the translation taken off: qnew = Ahat q - that
AffineResultMinusThat(sol, qq, q_factor, factored) ==
    LET Ahat == Mat(sol.nc, sol.nr - 1, LAMBDA i, j: sol.e[j][i])
        that == Mat(sol.nc, 1, LAMBDA i, j: sol.e[sol.nr][i])
        Aq == Dot(Ahat, qq)
    IN  [status |-> "ok",
         qnew |-> Mat(Aq.nr, Aq.nc, LAMBDA i, j: RSub(Aq.e[i][j], that.e[i][1])),
         q_factor |-> q_factor, Ahat |-> Ahat, that |-> that,
         factored |-> factored]

\* lines 98-102: Ahat, that and qnew from the solution sol
AffineResult(sol, qq, q_factor, factored) ==
    LET Ahat == Mat(sol.nc, sol.nr - 1, LAMBDA i, j: sol.e[j][i])
        that == Mat(sol.nc, 1, LAMBDA i, j: sol.e[sol.nr][i])
        Aq == Dot(Ahat, qq)
    IN  [status |-> "ok",
         qnew |-> Mat(Aq.nr, Aq.nc, LAMBDA i, j: RAdd(Aq.e[i][j], that.e[i][1])),
         q_factor |-> q_factor, Ahat |-> Ahat, that |-> that,
         factored |-> factored]

\* remove_affine that factorizes unless told to skip, also when a q_factor is
\* handed in ("if q_factor is None" left out)
remove_affine_refactoring(pp, qq, q_factor, skip_factorization) ==
    LET qaug == VStackOnes(qq)
        aligned == qaug.nc = pp.nc
        rhs == Dot(qaug, Transpose(pp))
        Q == Dot(qaug, Transpose(qaug))
    IN  IF skip_factorization
        THEN IF ~aligned
             THEN Raise("ValueError") @@ [factored |-> FALSE]
             ELSE IF q_factor = None
             THEN AffineResult(LstSq(Q, rhs).x, qq, None, FALSE)
             ELSE LET s == cho_solve(q_factor, rhs)
                  IN  IF s.status = "error"
                      THEN s @@ [factored |-> FALSE]
                      ELSE AffineResult(s.x, qq, q_factor, FALSE)
        ELSE LET f == cho_factor(Q)
             IN  IF f.status = "error"
                 THEN f @@ [factored |-> TRUE]
                 ELSE IF ~aligned
                 THEN Raise("ValueError") @@ [factored |-> TRUE]
                 ELSE AffineResult(cho_solve(f, rhs).x, qq, f, TRUE)

remove_affine(pp, qq, q_factor, skip_factorization) ==
    LET qaug == VStackOnes(qq)
        aligned == qaug.nc = pp.nc      \* np.dot(qaug, p.T) needs N = p.shape[1]
        rhs == Dot(qaug, Transpose(pp))
    IN  IF q_factor = None
        THEN LET Q == Dot(qaug, Transpose(qaug))
             IN  IF skip_factorization
                 THEN IF ~aligned
                      THEN Raise("ValueError") @@ [factored |-> FALSE]
                      ELSE AffineResult(LstSq(Q, rhs).x, qq, None, FALSE)
                 ELSE LET f == cho_factor(Q)
                      IN  IF f.status = "error"
                          THEN f @@ [factored |-> TRUE]
                          ELSE IF ~aligned
                          THEN Raise("ValueError") @@ [factored |-> TRUE]
                          ELSE AffineResult(cho_solve(f, rhs).x, qq, f, TRUE)
        ELSE IF ~aligned
             THEN Raise("ValueError") @@ [factored |-> FALSE]
             ELSE LET s == cho_solve(q_factor, rhs)
                  IN  IF s.status = "error"
                      THEN s @@ [factored |-> FALSE]
                      ELSE AffineResult(s.x, qq, q_factor, FALSE)

\* lines 149-153: one row x against one row xp, both of length N
LinearRow(x, xp) ==
    LET N == Len(xp)
        A == Mat(N, 2, LAMBDA i, j: IF j = 1 THEN xp[i] ELSE R(1))
        slope_intercept == LstSq(A, Mat(N, 1, LAMBDA i, j: x[i])).x
        newxp == Dot(A, slope_intercept)
    IN  Table([i \in 1..N |-> newxp.e[i][1]])

\* What remove_linear can give for two 2-D arrays.  np.hstack is handed a map
\* object: numpy releases that reject a non-sequence raise TypeError, the others
\* stack the rows.
remove_linear(x, xp) ==
    IF Shape(x) # Shape(xp)
    THEN {Raise("ValueError")}
    ELSE LET rows == Table([i \in 1..xp.nr |-> LinearRow(x.e[i], xp.e[i])])
         IN  {Raise("TypeError"),
              [status |-> "ok", newxp |-> Mat(xp.nr, xp.nc, LAMBDA i, j: rows[i][j])]}

-----------------------------------------------------------------------------
(* The residual solvers at a call site that keeps the returned q_factor.   *)

MaxN == 3

Dims == {1, 2}

\* the control points a design is drawn from, per dimension
Columns(d) == IF d = 1 THEN {<<0>>, <<1>>} ELSE {<<0, 0>>, <<1, 0>>, <<0, 1>>}

QArrays(d) ==
    {Mat(d, Len(c), LAMBDA i, j: c[j][i]) :
        c \in UNION {[1..n -> Columns(d)] : n \in 0..MaxN}}

\* invertible affine maps (A*, t*), per dimension
Truths(d) ==
    IF d = 1
    THEN {[A |-> <<<<2>>>>, t |-> <<1>>], [A |-> <<<<-1>>>>, t |-> <<0>>]}
    ELSE {[A |-> <<<<1, 1>>, <<0, 1>>>>, t |-> <<1, -1>>],
          [A |-> <<<<0, -1>>, <<1, 0>>>>, t |-> <<0, 0>>]}

RECURSIVE ISum(_)
ISum(s) == IF Len(s) = 0 THEN 0 ELSE s[Len(s)] + ISum(SubSeq(s, 1, Len(s) - 1))

\* A* q + t*, in integers
AffineImage(tr, qq) ==
    Mat(qq.nr, qq.nc,
        LAMBDA i, j: ISum([k \in 1..qq.nr |-> tr.A[i][k] * qq.e[k][j]]) + tr.t[i])

\* one measurement off by one: p is no longer an affine image of q
Bump(M) ==
    Mat(M.nr, M.nc, LAMBDA i, j: IF i = 1 /\ j = 1 THEN M.e[i][j] + 1 ELSE M.e[i][j])

ShapeEdits == {"fewer_points", "other_rows"}

\* p handed over with another shape than q: a point short, or with another
\* number of rows
EditShape(edit, M) ==
    CASE edit = "fewer_points" ->
            Mat(M.nr, IF M.nc = 0 THEN 0 ELSE M.nc - 1, LAMBDA i, j: M.e[i][j])
      [] edit = "other_rows" ->
            IF M.nr = 1
            THEN Mat(2, M.nc, LAMBDA i, j: M.e[1][j])
            ELSE Mat(1, M.nc, LAMBDA i, j: M.e[i][j])

IdleSolver ==
    /\ p = None /\ q = None /\ truth = None /\ cache = None /\ res = Unset

IdleAdapter ==
    /\ string = None /\ initvec = None /\ vec2dictfunc = Unset /\ mapping = Unset

IdleOptim ==
    /\ entry = "off" /\ sse = FALSE /\ objective = None /\ init = "off"
    /\ sols = <<>> /\ pc = "off" /\ ret = Unset
    /\ transform = Unset /\ last = Unset /\ iter = 0

IdleTicks ==
    /\ table = <<>> /\ ticks = Unset /\ cost = Unset

IdleCodec ==
    /\ args = None /\ encoded = Unset /\ decoded = Unset

\* p is an affine image of q, exact or with one measurement off, or an image
\* handed over with another shape
InitSolver ==
    /\ unit = "solver"
    /\ \E d \in Dims : \E qq \in QArrays(d) : \E tr \in Truths(d) :
          /\ q = qq
          /\ \/ /\ p = AffineImage(tr, qq)
                /\ truth = tr
             \/ /\ p = Bump(AffineImage(tr, qq))
                /\ truth = None
             \/ /\ tr.t[1] = 1
                /\ \E edit \in ShapeEdits : p = EditShape(edit, AffineImage(tr, qq))
                /\ truth = None
    /\ cache = None
    /\ res = Unset
    /\ IdleAdapter /\ IdleOptim /\ IdleTicks /\ IdleCodec

\* a call remove_affine(p, q, q_factor, skip_factorization), q_factor being None or
\* the factorization kept from an earlier call; the caller keeps what it returns
CallRemoveAffine ==
    /\ unit = "solver"
    /\ \E reuse \in BOOLEAN : \E skip_factorization \in BOOLEAN :
          /\ reuse => cache # None
          /\ \E q_factor \in {IF reuse THEN cache ELSE None} :
             \E out \in {remove_affine(AsFloat(p), AsFloat(q), q_factor,
                                       skip_factorization)} :
                 /\ res' = [call |-> "remove_affine", q_factor |-> q_factor,
                            skip_factorization |-> skip_factorization, out |-> out]
                 /\ cache' = IF out.status = "ok" /\ out.q_factor # None
                             THEN out.q_factor ELSE cache
    /\ UNCHANGED <<unit, p, q, truth, adapterVars, optimVars, tickVars, codecVars>>

\* a call remove_linear(p, q)
CallRemoveLinear ==
    /\ unit = "solver"
    /\ \E out \in remove_linear(AsFloat(p), AsFloat(q)) :
          res' = [call |-> "remove_linear", out |-> out]
    /\ UNCHANGED <<unit, p, q, truth, cache, adapterVars, optimVars, tickVars, codecVars>>

\* the design changes under a caller that holds a factorization: the first
\* control point moves, and p is what it was
MoveControlPoint ==
    /\ unit = "solver"
    /\ cache # None
    /\ q.nc >= 1 /\ q.e[1][1] <= 1
    /\ q' = Mat(q.nr, q.nc,
                LAMBDA i, j: IF i = 1 /\ j = 1 THEN q.e[i][j] + 2 ELSE q.e[i][j])
    /\ truth' = None
    /\ res' = Unset
    /\ UNCHANGED <<unit, p, cache, adapterVars, optimVars, tickVars, codecVars>>

NextSolver == CallRemoveAffine \/ CallRemoveLinear \/ MoveControlPoint

SpecSolver == InitSolver /\ [][NextSolver]_vars

-----------------------------------------------------------------------------
(* Claims about the residual solvers, checked under SpecSolver.            *)

\* the determinant of a square table of rationals, by its first row
RECURSIVE Det(_, _)
Det(e, n) ==
    IF n = 0 THEN R(1)
    ELSE RSum([c \in 1..n |->
            RMul(RMul(IF c % 2 = 1 THEN R(1) ELSE R(-1), e[1][c]),
                 Det([i \in 1..(n - 1) |-> [j \in 1..(n - 1) |->
                         e[i + 1][IF j < c THEN j ELSE j + 1]]], n - 1))])

\* qaug qaug^T for the design qq
Gram(qq) == Dot(VStackOnes(AsFloat(qq)), Transpose(VStackOnes(AsFloat(qq))))

\* the design has d+1 affinely independent points: [q; 1] has rank d+1
AffinelySpanning(qq) == Det(Gram(qq).e, qq.nr + 1)[1] # 0

IsAffineCall == res # Unset /\ res.call = "remove_affine"
Returned == res # Unset /\ res.out.status = "ok"

\* the factorization handed in was made from the q of this call
FreshFactor == res.q_factor = cho_factor(Gram(q))

\* C6 as claimed: for any q and any invertible (A*, t*), remove_affine with
\* p = A* q + t* returns Ahat = A*, that = t* and qnew = p.
C6_RoundTripAnyQ ==
    (IsAffineCall /\ truth # None) =>
        /\ Returned
        /\ res.out.Ahat.e = AsFloat(Mat(q.nr, q.nr, LAMBDA i, j: truth.A[i][j])).e
        /\ res.out.that.e = AsFloat(Mat(q.nr, 1, LAMBDA i, j: truth.t[i])).e
        /\ res.out.qnew = AsFloat(p)

\* C6 amended: for any q with d+1 affinely independent points and any invertible
\* (A*, t*), remove_affine with p = A* q + t* returns Ahat = A*, that = t* and
\* qnew = p, in every solve path.
C6_RoundTrip ==
    (IsAffineCall /\ truth # None /\ AffinelySpanning(q)) =>
        /\ Returned
        /\ res.out.Ahat.e = AsFloat(Mat(q.nr, q.nr, LAMBDA i, j: truth.A[i][j])).e
        /\ res.out.that.e = AsFloat(Mat(q.nr, 1, LAMBDA i, j: truth.t[i])).e
        /\ res.out.qnew = AsFloat(p)

\* a 2 x 3 design and a shear with a translation, recovered by the factorizing path
C6_Witness ==
    /\ IsAffineCall /\ truth # None /\ AffinelySpanning(q)
    /\ q.nr = 2 /\ truth.A[1][2] = 1
    /\ res.q_factor = None /\ ~res.skip_factorization
    /\ Returned /\ res.out.Ahat.e[1][2] = R(1) /\ res.out.that.e[2][1] = R(-1)

\* two outcomes are the same fit: both raise, or both return the same arrays
SameFit(a, b) ==
    (a.status = "ok" \/ b.status = "ok") =>
        /\ a.status = "ok" /\ b.status = "ok"
        /\ a.qnew = b.qnew /\ a.Ahat = b.Ahat /\ a.that = b.that

\* C7: for the same p and q, the factorizing path, the direct least-squares path
\* and the path reusing the factorization made from that q give the same qnew,
\* Ahat and that.
C7_SolvePathsAgree ==
    (IsAffineCall /\ (res.q_factor = None \/ FreshFactor)) =>
        /\ SameFit(res.out, remove_affine(AsFloat(p), AsFloat(q), None, FALSE))
        /\ SameFit(res.out, remove_affine(AsFloat(p), AsFloat(q), None, TRUE))

\* (the paths do agree on every design with d+1 affinely independent points)
SolvePathsAgreeOnSpanningDesigns ==
    (IsAffineCall /\ (res.q_factor = None \/ FreshFactor) /\ AffinelySpanning(q)) =>
        /\ SameFit(res.out, remove_affine(AsFloat(p), AsFloat(q), None, FALSE))
        /\ SameFit(res.out, remove_affine(AsFloat(p), AsFloat(q), None, TRUE))

\* the parameter names of the fit of line 514, "lon_0,lat_0,lat_1,lat_2"
NumFitParams == 4

\* the call search.minimize makes: two 2 x N arrays, no q_factor, no skip
IsPipelineCall ==
    /\ IsAffineCall /\ p.nr = 2 /\ q.nr = 2
    /\ res.q_factor = None /\ ~res.skip_factorization

\* C8: with fewer than d+1 control points (for the fit pipeline, fewer than
\* len(parameter_names)+1) the solver raises, in every solve mode; it never
\* returns a transform and fitted points.
C8_TooFewPointsRaises ==
    /\ (IsAffineCall /\ q.nc < q.nr + 1) => ~Returned
    /\ (IsPipelineCall /\ q.nc < NumFitParams + 1) => ~Returned

\* C9: remove_affine and remove_linear, called with arrays whose shapes differ in
\* the number of rows or of points, raise; neither returns a result.
C9_ShapeMismatchRaises ==
    (res # Unset /\ Shape(p) # Shape(q)) => ~Returned

-----------------------------------------------------------------------------
(* The parameter adapter: make_vector2dictfunc and the lambda it returns.  *)

MaxLen == 3

\* the characters parameter strings are made of, the default delimiter among them
Alphabet == {"a", "b", ","}
Delimiter == ","
Values == {0, 1}

Strings == UNION {[1..n -> Alphabet] : n \in 0..MaxLen}

\* what is handed to the lambda: a scalar (ndim 0) or a list of numbers
Vectors ==
    {[ndim |-> 0, v |-> <<x>>] : x \in Values}
        \cup {[ndim |-> 1, v |-> x] : x \in UNION {[1..n -> Values] : n \in 0..MaxLen}}

\* initvec: None (nothing given), or a list, of which only the length is read
InitVecs ==
    {[given |-> FALSE, v |-> <<>>]}
        \cup {[given |-> TRUE, v |-> [i \in 1..n |-> 0]] : n \in 0..MaxLen}

\* str.split(delimiter), for a delimiter of one character
RECURSIVE Split(_, _)
Split(str, delimiter) ==
    IF \A i \in 1..Len(str) : str[i] # delimiter
    THEN <<str>>
    ELSE LET at == CHOOSE i \in 1..Len(str) :
                      /\ str[i] = delimiter
                      /\ \A k \in 1..(i - 1) : str[k] # delimiter
         IN  <<SubSeq(str, 1, at - 1)>> \o Split(SubSeq(str, at + 1, Len(str)), delimiter)

\* np.atleast_1d(x)
AtLeast1d(x) == x.v

\* zip(a, b): pairs, as many as the shorter of the two has
Zip(a, b) ==
    [i \in 1..(IF Len(a) <= Len(b) THEN Len(a) ELSE Len(b)) |-> <<a[i], b[i]>>]

\* dict(pairs): keys in the order they first appear, each with its last value
RECURSIVE Dict(_)
Dict(pairs) ==
    IF Len(pairs) = 0
    THEN [keys |-> <<>>, val |-> <<>>]
    ELSE LET d == Dict(SubSeq(pairs, 1, Len(pairs) - 1))
             k == pairs[Len(pairs)][1]
             v == pairs[Len(pairs)][2]
         IN  IF \E i \in 1..Len(d.keys) : d.keys[i] = k
             THEN [keys |-> d.keys,
                   val |-> [i \in 1..Len(d.keys) |-> IF d.keys[i] = k THEN v ELSE d.val[i]]]
             ELSE [keys |-> Append(d.keys, k), val |-> Append(d.val, v)]

\* d[k], for a key k of d
Lookup(d, k) == d.val[CHOOSE i \in 1..Len(d.keys) : d.keys[i] = k]

\* bool(initvec) for None and for lists
Truthy(iv) == iv.given /\ Len(iv.v) > 0

\* make_vector2dictfunc(string, delimiter, initvec): None after the printed
\* message, or the lambda, which is its captured list substrings
make_vector2dictfunc(str, delimiter, iv) ==
    LET substrings == Split(str, delimiter)
    IN  IF Truthy(iv) /\ Len(iv.v) # Len(substrings)
        THEN None
        ELSE [substrings |-> substrings]

\* the lambda with the vector taken from its end: zip(substrings, x[::-1])
vec2dict_reversed(substrings, x) ==
    Dict(Zip(substrings,
             [i \in 1..Len(AtLeast1d(x)) |-> AtLeast1d(x)[Len(AtLeast1d(x)) + 1 - i]]))

\* the lambda: dict(zip(substrings, np.atleast_1d(x)))
vec2dict(substrings, x) == Dict(Zip(substrings, AtLeast1d(x)))

InitAdapter ==
    /\ unit = "adapter"
    /\ string \in Strings
    /\ initvec \in InitVecs
    /\ vec2dictfunc = Unset
    /\ mapping = Unset
    /\ IdleSolver /\ IdleOptim /\ IdleTicks /\ IdleCodec

MakeVector2DictFunc ==
    /\ unit = "adapter"
    /\ vec2dictfunc = Unset
    /\ vec2dictfunc' = make_vector2dictfunc(string, Delimiter, initvec)
    /\ UNCHANGED <<unit, string, initvec, mapping, solverVars, optimVars, tickVars, codecVars>>

\* vec2dictfunc(x); calling None raises TypeError
CallVec2Dict ==
    /\ unit = "adapter"
    /\ vec2dictfunc # Unset
    /\ \E x \in Vectors :
          mapping' = [x |-> x,
                      out |-> IF vec2dictfunc = None
                              THEN Raise("TypeError")
                              ELSE [status |-> "ok",
                                    dict |-> vec2dict(vec2dictfunc.substrings, x)]]
    /\ UNCHANGED <<unit, string, initvec, vec2dictfunc, solverVars, optimVars, tickVars, codecVars>>

NextAdapter == MakeVector2DictFunc \/ CallVec2Dict

SpecAdapter == InitAdapter /\ [][NextAdapter]_vars

-----------------------------------------------------------------------------
(* Claims about the adapter, checked under SpecAdapter.                    *)

Names == Split(string, Delimiter)
Called == mapping # Unset
Mapped == mapping # Unset /\ mapping.out.status = "ok"
Given == AtLeast1d(mapping.x)

\* C4: whenever the number of values differs from the number of names the adapter
\* fails with an error; it never gives a mapping with fewer entries than names,
\* and never drops surplus values.
C4_LengthMismatchRaises ==
    (Called /\ Len(Given) # Len(Names)) => ~Mapped

PairwiseDistinct(seq) ==
    \A i \in 1..Len(seq) : \A j \in 1..Len(seq) : seq[i] = seq[j] => i = j

\* the mapping has the names as its keys, in their order, the i-th name maps to
\* the i-th value, and read back in name order it gives the values
IsOrderedBijection(d, names, values) ==
    /\ Len(d.keys) = Len(names)
    /\ d.keys = names
    /\ \A i \in 1..Len(names) : Lookup(d, names[i]) = values[i]
    /\ [i \in 1..Len(names) |-> Lookup(d, names[i])] = values

\* C5 as claimed: for every name list and every value vector of the same length
\* the mapping is an order-preserving bijection.
C5_BijectionAnyNames ==
    (Mapped /\ Len(Given) = Len(Names)) =>
        IsOrderedBijection(mapping.out.dict, Names, Given)

\* C5 amended: for every list of pairwise distinct names and every value vector of
\* the same length the mapping is an order-preserving bijection.
C5_Bijection ==
    (Mapped /\ Len(Given) = Len(Names) /\ PairwiseDistinct(Names)) =>
        IsOrderedBijection(mapping.out.dict, Names, Given)

\* two names "a" and "b" mapped to the values 1 and 0
C5_Witness ==
    /\ Mapped /\ Names = << <<"a">>, <<"b">> >> /\ Given = <<1, 0>>
    /\ Lookup(mapping.out.dict, <<"a">>) = 1
    /\ Lookup(mapping.out.dict, <<"b">>) = 0

-----------------------------------------------------------------------------
(* The parameter encoding of the fine-tune loop: paramsToInit and          *)
(* listToParams.                                                           *)

\* M.ravel(): the entries of M, row after row
Ravel(M) == [k \in 1..(M.nr * M.nc) |-> M.e[((k - 1) \div M.nc) + 1][((k - 1) % M.nc) + 1]]

\* pyproj's Proj(proj=..., lon_0=...), and its srs string "+proj=... +lon_0=..."
Proj(proj, lon_0) ==
    [proj |-> proj, lon_0 |-> lon_0,
     srs |-> <<[key |-> "+proj=", value |-> proj], [key |-> "+lon_0=", value |-> lon_0]>>]

\* float(p.srs.split('+lon_0=')[1])
LonOfSrs(srs) == srs[CHOOSE k \in 1..Len(srs) : srs[k].key = "+lon_0="].value

\* paramsToInit with the entries of A taken column after column (A.T.ravel())
paramsToInitColumnMajor(A, b, pLonInit) ==
    LET Ainit == Scale(R(1000000), A)
        binit == Ravel(Scale(<<1, 100>>, b))
    IN  Ravel(Transpose(Ainit)) \o <<binit[1], binit[2], pLonInit>>

\* lines 411-414
paramsToInit(A, b, pLonInit) ==
    LET Ainit == Scale(R(1000000), A)
        binit == Ravel(Scale(<<1, 100>>, b))
    IN  Ravel(Ainit) \o <<binit[1], binit[2], pLonInit>>

\* lines 403-408; unpacking a list that has not seven entries raises ValueError
listToParams(params) ==
    IF Len(params) # 7
    THEN Raise("ValueError")
    ELSE LET A0 == params[1]
             A1 == params[2]
             A2 == params[3]
             A3 == params[4]
             b0 == params[5]
             b1 == params[6]
             lon == params[7]
         IN  [status |-> "ok",
              A |-> Scale(<<1, 1000000>>,
                          Mat(2, 2, LAMBDA i, j: <<A0, A1, A2, A3>>[2 * (i - 1) + j])),
              b |-> Scale(R(100), Mat(2, 1, LAMBDA i, j: <<b0, b1>>[i])),
              p |-> Proj("wintri", lon)]

\* entries of A and b, and central longitudes
Entries == {R(0), R(1), <<-3, 2>>}
Longitudes == {R(47), <<-1, 2>>}

InitCodec ==
    /\ unit = "encoding"
    /\ \E a \in [1..4 -> Entries], t \in [1..2 -> Entries], lon \in Longitudes :
          args = [A |-> Mat(2, 2, LAMBDA i, j: a[2 * (i - 1) + j]),
                  b |-> Mat(2, 1, LAMBDA i, j: t[i]),
                  lon |-> lon]
    /\ encoded = Unset
    /\ decoded = Unset
    /\ IdleSolver /\ IdleAdapter /\ IdleOptim /\ IdleTicks

ParamsToInit ==
    /\ unit = "encoding"
    /\ encoded = Unset
    /\ encoded' = paramsToInit(args.A, args.b, args.lon)
    /\ UNCHANGED <<unit, args, decoded, solverVars, adapterVars, optimVars, tickVars>>

ListToParams ==
    /\ unit = "encoding"
    /\ encoded # Unset /\ decoded = Unset
    /\ decoded' = listToParams(encoded)
    /\ UNCHANGED <<unit, args, encoded, solverVars, adapterVars, optimVars, tickVars>>

NextCodec == ParamsToInit \/ ListToParams

SpecCodec == InitCodec /\ [][NextCodec]_vars

\* C14: paramsToInit(A, b, lon) is a vector of seven entries, A row by row times
\* 1e6, then b times 1e-2, then lon as it is, and listToParams of that vector
\* gives the same A, the same b and a projection whose lon_0 is lon.
C14_EncodingRoundTrip ==
    /\ encoded # Unset =>
          /\ Len(encoded) = 7
          /\ \A i \in 1..2 : \A j \in 1..2 :
                encoded[2 * (i - 1) + j] = RMul(args.A.e[i][j], R(1000000))
          /\ \A i \in 1..2 : encoded[4 + i] = RDiv(args.b.e[i][1], R(100))
          /\ encoded[7] = args.lon
    /\ decoded # Unset =>
          /\ decoded.status = "ok"
          /\ decoded.A = args.A
          /\ decoded.b = args.b
          /\ decoded.p.lon_0 = args.lon
          /\ LonOfSrs(decoded.p.srs) = args.lon

\* an A that is not symmetric and a b with two different entries have gone
\* through both functions
C14_Witness ==
    /\ decoded # Unset /\ decoded.status = "ok"
    /\ args.A.e[1][2] = <<-3, 2>> /\ args.A.e[2][1] = R(1)
    /\ args.b.e[1][1] = R(1) /\ args.b.e[2][1] = <<-3, 2>>
    /\ encoded[2] = R(-1500000) /\ encoded[6] = <<-3, 200>>
    /\ decoded.A.e[1][2] = <<-3, 2>> /\ decoded.b.e[2][1] = <<-3, 2>>

-----------------------------------------------------------------------------
(* The multi-strategy optimizers search and fine.                          *)
(*                                                                         *)
(* The closure minimize is a table from parameter vectors to costs.  A     *)
(* scipy strategy gives a vector, the cost there, and whether it converged *)
(* within its budget (warnflag 0, success): it returns either way.  The    *)
(* simplex method keeps its best vertex and starts with the initial guess  *)
(* as a vertex, so its cost is at most the cost at the initial guess; of   *)
(* the other strategies nothing is assumed, and differential evolution     *)
(* does not start from the initial guess at all.                           *)

Points == {"x0", "x1"}
MaxCost == 2
Costs == 0..MaxCost

\* the parameter vectors the two points stand for: seven entries, as paramsToInit
\* lays them out
ParamVector ==
    [x0 |-> <<R(1000000), R(-1500000), R(0), R(1000000), <<1, 100>>, R(0), R(47)>>,
     x1 |-> <<R(1000000), R(0), R(-1500000), R(1000000), <<1, 100>>, R(0), R(47)>>]

\* the point a parameter vector is
PointOf(v) == CHOOSE x \in Points : ParamVector[x] = v

Result(f, x, by, converged) ==
    [x |-> x, fx |-> f[x], by |-> by, converged |-> converged]

\* opt.fmin, and opt.minimize(method="Nelder-Mead"), started at x0
NelderMead(f, x0, by) ==
    {Result(f, x, by, c) : x \in {y \in Points : f[y] <= f[x0]}, c \in BOOLEAN}

\* opt.fmin_powell, opt.fmin_bfgs, opt.fmin_cg started at x0
LocalSearch(f, x0, by) == {Result(f, x, by, c) : x \in Points, c \in BOOLEAN}

\* line 428, "if sse:": the cost the closure minimize of fine computes
CostMode(flag) == IF flag THEN "sum-of-squares" ELSE "worst-case"

\* opt.differential_evolution within the bounds init +- 3.5
DifferentialEvolution(f, x0, by) == {Result(f, x, by, c) : x \in Points, c \in BOOLEAN}

\* line 625, range(5)
LoopIterations == 5

\* np.argmin of a list of costs: the first index of the least (indices from 1)
ArgMin(costs) ==
    CHOOSE i \in 1..Len(costs) :
        /\ \A j \in 1..Len(costs) : costs[i] <= costs[j]
        /\ \A j \in 1..(i - 1) : costs[j] > costs[i]

\* line 191, np.argmin(map(lambda x: x[idx_fx], sols)): in Python 3 map gives an
\* iterator, which numpy makes a 0-d object array, whose argmin is 0: the first
\* entry of sols, whatever the costs
search_best(candidates) == 1

\* fine with np.argmax for np.argmin: the first index of the greatest cost
fine_best_argmax(candidates) ==
    CHOOSE i \in 1..Len(candidates) :
        /\ \A j \in 1..Len(candidates) : candidates[i].fx >= candidates[j].fx
        /\ \A j \in 1..(i - 1) : candidates[j].fx < candidates[i].fx

\* line 468, np.argmin([x[1] for x in sols])
fine_best(candidates) == ArgMin([i \in 1..Len(candidates) |-> candidates[i].fx])

InitOptim ==
    /\ unit = "optimizer"
    /\ entry \in {"search", "fine"}
    /\ sse \in BOOLEAN
    /\ entry = "search" => sse
    /\ objective \in [Points -> Costs]
    /\ init \in Points
    /\ sols = <<>>
    /\ pc = "fmin"
    /\ ret = Unset
    /\ transform = Unset /\ last = Unset /\ iter = 0
    /\ IdleSolver /\ IdleAdapter /\ IdleTicks /\ IdleCodec

\* sols.append(<a strategy's result>)
Run(here, results, next) ==
    /\ unit = "optimizer"
    /\ pc = here
    /\ \E r \in results : sols' = Append(sols, r)
    /\ pc' = next
    /\ UNCHANGED <<unit, entry, sse, objective, init, ret, transform, last, iter,
                 solverVars, adapterVars, tickVars, codecVars>>

SearchFmin ==
    entry = "search" /\ Run("fmin", NelderMead(objective, init, "fmin"), "powell")
SearchPowell ==
    entry = "search" /\ Run("powell", LocalSearch(objective, init, "powell"), "bfgs")
SearchBfgs ==
    entry = "search" /\ Run("bfgs", LocalSearch(objective, init, "bfgs"), "cg")
SearchCg ==
    entry = "search" /\ Run("cg", LocalSearch(objective, init, "cg"), "neldermead")
SearchNelderMead ==
    entry = "search"
        /\ Run("neldermead", NelderMead(objective, init, "neldermead"), "argmin")

SearchReturn ==
    /\ unit = "optimizer" /\ entry = "search"
    /\ pc = "argmin"
    /\ ret' = sols[search_best(sols)]
    /\ pc' = "done"
    /\ UNCHANGED <<unit, entry, sse, objective, init, sols, transform, last, iter,
                   solverVars, adapterVars, tickVars, codecVars>>

FineFmin ==
    entry = "fine" /\ Run("fmin", NelderMead(objective, init, "fmin"), "powell")
FinePowell ==
    entry = "fine" /\ Run("powell", LocalSearch(objective, init, "powell"), "bfgs")
FineBfgs ==
    entry = "fine" /\ Run("bfgs", LocalSearch(objective, init, "bfgs"), "cg")
\* FineCg with the test of line 441 turned round ("if sse:")
FineCgThenGlobalOnSse ==
    entry = "fine"
        /\ Run("cg", LocalSearch(objective, init, "cg"),
               IF sse THEN "de" ELSE "neldermead")

FineCg ==
    entry = "fine"
        /\ Run("cg", LocalSearch(objective, init, "cg"),
               IF sse = FALSE THEN "de" ELSE "neldermead")
FineDifferentialEvolution ==
    entry = "fine"
        /\ Run("de", DifferentialEvolution(objective, init, "de"), "neldermead")
FineNelderMead ==
    entry = "fine"
        /\ Run("neldermead", NelderMead(objective, init, "neldermead"), "argmin")

FineReturn ==
    /\ unit = "optimizer" /\ entry = "fine"
    /\ pc = "argmin"
    /\ ret' = sols[fine_best(sols)]
    /\ transform' = listToParams(ParamVector[sols[fine_best(sols)].x])
    /\ pc' = "done"
    /\ UNCHANGED <<unit, entry, sse, objective, init, sols, last, iter,
                   solverVars, adapterVars, tickVars, codecVars>>

\* lines 625-627 with a3, b3, p3 never assigned in the loop: every call starts
\* where the first one did
FineWorstCaseAgainFromStart ==
    /\ unit = "optimizer" /\ entry = "fine"
    /\ pc = "done" /\ sse = FALSE /\ iter < LoopIterations
    /\ last' = [sse |-> sse, fx |-> ret.fx, transform |-> transform]
    /\ init' = init
    /\ sols' = <<>> /\ ret' = Unset /\ transform' = Unset /\ pc' = "fmin"
    /\ iter' = iter + 1
    /\ UNCHANGED <<unit, entry, sse, objective,
                   solverVars, adapterVars, tickVars, codecVars>>

\* lines 620-621, after the call of lines 617-618: fine(lonTicks, latTicks,
\* Afine, bfine, float(pfine.srs.split('+lon_0=')[1]), sse=False), up to its
\* line 434; its closure minimize is another function than the sum of squares
FineWorstCase ==
    /\ unit = "optimizer" /\ entry = "fine"
    /\ pc = "done" /\ sse = TRUE /\ iter = 0
    /\ last' = [sse |-> sse, fx |-> ret.fx, transform |-> transform]
    /\ sse' = FALSE
    /\ objective' \in [Points -> Costs]
    /\ init' = PointOf(paramsToInit(transform.A, transform.b,
                                    LonOfSrs(transform.p.srs)))
    /\ sols' = <<>> /\ ret' = Unset /\ transform' = Unset /\ pc' = "fmin"
    /\ UNCHANGED <<unit, entry, iter, solverVars, adapterVars, tickVars, codecVars>>

\* lines 624-627, one turn of the loop: a3, b3, p3 = fine(lonTicks, latTicks,
\* a3, b3, float(p3.srs.split('+lon_0=')[1]), sse=False)[1], up to line 434 of
\* the call
FineWorstCaseAgain ==
    /\ unit = "optimizer" /\ entry = "fine"
    /\ pc = "done" /\ sse = FALSE /\ iter < LoopIterations
    /\ last' = [sse |-> sse, fx |-> ret.fx, transform |-> transform]
    /\ init' = PointOf(paramsToInit(transform.A, transform.b,
                                    LonOfSrs(transform.p.srs)))
    /\ sols' = <<>> /\ ret' = Unset /\ transform' = Unset /\ pc' = "fmin"
    /\ iter' = iter + 1
    /\ UNCHANGED <<unit, entry, sse, objective,
                   solverVars, adapterVars, tickVars, codecVars>>

NextOptim ==
    \/ SearchFmin \/ SearchPowell \/ SearchBfgs \/ SearchCg \/ SearchNelderMead
    \/ SearchReturn
    \/ FineFmin \/ FinePowell \/ FineBfgs \/ FineCg \/ FineDifferentialEvolution
    \/ FineNelderMead \/ FineReturn

SpecOptim == InitOptim /\ [][NextOptim]_vars

\* lines 617-627 of the script: fine in its default mode, then fine with
\* sse=False, then the loop
InitRefine == InitOptim /\ entry = "fine" /\ sse = TRUE

NextRefine ==
    \/ FineFmin \/ FinePowell \/ FineBfgs \/ FineCg \/ FineDifferentialEvolution
    \/ FineNelderMead \/ FineReturn
    \/ FineWorstCase \/ FineWorstCaseAgain

SpecRefine == InitRefine /\ [][NextRefine]_vars

-----------------------------------------------------------------------------
(* Claims about the optimizers, checked under SpecOptim.                   *)

Done == pc = "done"

\* the strategies the call ran
StrategiesRun ==
    IF entry = "fine" /\ sse = FALSE
    THEN <<"fmin", "powell", "bfgs", "cg", "de", "neldermead">>
    ELSE <<"fmin", "powell", "bfgs", "cg", "neldermead">>

\* C1: search and fine return the result of least cost among the results of all
\* the strategies they ran, and of several results of least cost the one of the
\* strategy run first.
C1_ReturnsFirstLowest ==
    Done =>
        \E k \in 1..Len(sols) :
            /\ ret = sols[k]
            /\ \A i \in 1..Len(sols) : sols[k].fx <= sols[i].fx
            /\ \A i \in 1..(k - 1) : sols[i].fx > sols[k].fx

\* (fine does return the first result of least cost)
FineReturnsFirstLowest == entry = "fine" => C1_ReturnsFirstLowest

\* C2: the cost of the result search and fine (in either cost mode) return is at
\* most the cost at the initial guess.
C2_NoWorseThanInit == Done => ret.fx <= objective[init]

\* fine in worst-case mode: differential evolution and Powell's method end above
\* the cost at the initial guess, and what fine returns is not above it
C2_Witness ==
    /\ Done /\ entry = "fine" /\ sse = FALSE
    /\ sols[5].by = "de" /\ sols[5].fx > objective[init]
    /\ sols[2].by = "powell" /\ sols[2].fx > objective[init]
    /\ ret.fx <= objective[init]

\* C3: a strategy that did not converge within its budget is no error and is not
\* dropped: its result is in the candidate list, one candidate per strategy run,
\* and it is compared like any other, so nothing returned costs more than it.
C3_UnconvergedCompared ==
    Done =>
        /\ Len(sols) = Len(StrategiesRun)
        /\ \A i \in 1..Len(sols) : sols[i].by = StrategiesRun[i]
        /\ \A i \in 1..Len(sols) : ~sols[i].converged => ret.fx <= sols[i].fx

\* (every strategy's result is a candidate, converged or not, in search and fine)
EveryStrategyIsCandidate ==
    Done =>
        /\ Len(sols) = Len(StrategiesRun)
        /\ \A i \in 1..Len(sols) : sols[i].by = StrategiesRun[i]

\* the strategies whose results are in sols, in the order they ran
Ran == [i \in 1..Len(sols) |-> sols[i].by]

\* C11: in fine, differential evolution is run exactly when the worst-case cost
\* is the one minimized: a sum-of-squares call runs the five local strategies
\* only, and a worst-case call runs differential evolution too, after the first
\* four local strategies and before the final simplex pass.
C11_GlobalIffWorstCase ==
    entry = "fine" =>
        /\ (\E i \in 1..Len(sols) : sols[i].by = "de") => CostMode(sse) = "worst-case"
        /\ \A i \in 1..Len(sols) :
              sols[i].by = "de" =>
                 /\ SubSeq(Ran, 1, i - 1) = <<"fmin", "powell", "bfgs", "cg">>
                 /\ \A j \in (i + 1)..Len(sols) : sols[j].by = "neldermead"
        /\ (Done /\ CostMode(sse) = "sum-of-squares") =>
              Ran = <<"fmin", "powell", "bfgs", "cg", "neldermead">>
        /\ (Done /\ CostMode(sse) = "worst-case") =>
              Ran = <<"fmin", "powell", "bfgs", "cg", "de", "neldermead">>

\* a worst-case call has run all six strategies, and returns what differential
\* evolution found
C11_Witness ==
    /\ Done /\ entry = "fine" /\ CostMode(sse) = "worst-case"
    /\ Len(sols) = 6 /\ sols[5].by = "de" /\ sols[6].by = "neldermead"
    /\ ret.by = "de"

-----------------------------------------------------------------------------
(* The tick sets of the fine-tune loop: fineLoad, and the closure minimize *)
(* of fine on them.                                                        *)
(*                                                                         *)
(* A row of the ticks file is [lon, lat, x, y].  pixToLonlat, the inverse  *)
(* projection of pyproj after the inverse affine map, is a table from a    *)
(* pixel to the longitude and latitude estimated there.                    *)

MaxRows == 2
Degrees == {0, 2}
Estimates == {0, 1, 4}

\* the rows of a ticks file: row i is digitized at the pixel (i, i)
Tables ==
    UNION {[1..n -> [lon : Degrees, lat : Degrees, x : {0}, y : {0}]] : n \in 0..MaxRows}

AtPixels(rows) == [i \in 1..Len(rows) |-> [rows[i] EXCEPT !.x = i, !.y = i]]

\* lines 10-25: np.genfromtxt gives a 1-D array for a file of fewer than two
\* rows of data, and [:, :4] of it raises IndexError
loaddata(rows) ==
    IF Len(rows) < 2
    THEN Raise("IndexError")
    ELSE [status |-> "ok",
          lon |-> [i \in 1..Len(rows) |-> rows[i].lon],
          lat |-> [i \in 1..Len(rows) |-> rows[i].lat],
          x |-> [i \in 1..Len(rows) |-> rows[i].x],
          y |-> [i \in 1..Len(rows) |-> rows[i].y]]

\* a[mask == 0]: the entries of a where mask is 0, in their order
RECURSIVE WhereZero(_, _)
WhereZero(a, mask) ==
    IF Len(a) = 0 THEN <<>>
    ELSE LET rest == WhereZero(Tail(a), Tail(mask))
         IN  IF Head(mask) = 0 THEN <<Head(a)>> \o rest ELSE rest

fineLoad(rows) ==
    LET d == loaddata(rows)
    IN  IF d.status = "error" THEN d
        ELSE [status |-> "ok",
              lonTicks |-> [deg |-> WhereZero(d.lon, d.lat),
                            px |-> WhereZero(d.x, d.lat),
                            py |-> WhereZero(d.y, d.lat)],
              latTicks |-> [deg |-> WhereZero(d.lat, d.lon),
                            px |-> WhereZero(d.x, d.lon),
                            py |-> WhereZero(d.y, d.lon)]]

\* np.sum and np.max of a 1-D array of integers
RECURSIVE NpSum(_)
NpSum(a) == IF Len(a) = 0 THEN 0 ELSE Head(a) + NpSum(Tail(a))

NpMax(a) == CHOOSE m \in {a[i] : i \in 1..Len(a)} : \A i \in 1..Len(a) : a[i] <= m

\* (hat - deg)**2, entry by entry
SquaredResiduals(hat, deg) == [i \in 1..Len(deg) |-> (hat[i] - deg[i]) * (hat[i] - deg[i])]

\* the closure minimize of fine with the axes crossed: the latitude estimate is
\* taken at the longitude ticks and the longitude estimate at the latitude ticks
fine_minimize_cross_axis(lonsLocs, latsLocs, pixToLonlat, flag) ==
    LET latsHat == [i \in 1..Len(latsLocs.px) |-> pixToLonlat[latsLocs.px[i]].lon]
        lonsHat == [i \in 1..Len(lonsLocs.px) |-> pixToLonlat[lonsLocs.px[i]].lat]
        lonsSq == SquaredResiduals(lonsHat, lonsLocs.deg)
        latsSq == SquaredResiduals(latsHat, latsLocs.deg)
    IN  IF flag
        THEN [status |-> "ok", fun |-> NpSum(lonsSq) + NpSum(latsSq)]
        ELSE IF Len(lonsSq) = 0 \/ Len(latsSq) = 0
        THEN Raise("ValueError")
        ELSE [status |-> "ok", fun |-> NpMax(<<NpMax(lonsSq), NpMax(latsSq)>>)]

\* lines 421-430, the closure minimize of fine at one parameter vector, whose
\* pixToLonlat is the table given; np.max of an empty array raises ValueError
fine_minimize(lonsLocs, latsLocs, pixToLonlat, flag) ==
    LET latsHat == [i \in 1..Len(latsLocs.px) |-> pixToLonlat[latsLocs.px[i]].lat]
        lonsHat == [i \in 1..Len(lonsLocs.px) |-> pixToLonlat[lonsLocs.px[i]].lon]
        lonsSq == SquaredResiduals(lonsHat, lonsLocs.deg)
        latsSq == SquaredResiduals(latsHat, latsLocs.deg)
    IN  IF flag
        THEN [status |-> "ok", fun |-> NpSum(lonsSq) + NpSum(latsSq)]
        ELSE IF Len(lonsSq) = 0 \/ Len(latsSq) = 0
        THEN Raise("ValueError")
        ELSE [status |-> "ok", fun |-> NpMax(<<NpMax(lonsSq), NpMax(latsSq)>>)]

InitTicks ==
    /\ unit = "ticks"
    /\ \E rows \in Tables : table = AtPixels(rows)
    /\ ticks = Unset
    /\ cost = Unset
    /\ IdleSolver /\ IdleAdapter /\ IdleOptim /\ IdleCodec

FineLoad ==
    /\ unit = "ticks"
    /\ ticks = Unset
    /\ ticks' = fineLoad(table)
    /\ UNCHANGED <<unit, table, cost, solverVars, adapterVars, optimVars, codecVars>>

\* minimize(params), for the params whose pixToLonlat is the table chosen
Minimize ==
    /\ unit = "ticks"
    /\ ticks # Unset /\ ticks.status = "ok"
    /\ cost = Unset
    /\ \E flag \in BOOLEAN :
       \E pixToLonlat \in [1..Len(table) -> [lon : Estimates, lat : Estimates]] :
          cost' = [sse |-> flag, pixToLonlat |-> pixToLonlat,
                   out |-> fine_minimize(ticks.lonTicks, ticks.latTicks,
                                         pixToLonlat, flag)]
    /\ UNCHANGED <<unit, table, ticks, solverVars, adapterVars, optimVars, codecVars>>

NextTicks == FineLoad \/ Minimize

SpecTicks == InitTicks /\ [][NextTicks]_vars

-----------------------------------------------------------------------------
(* Claims about the tick sets, checked under SpecTicks.                    *)

Loaded == ticks # Unset /\ ticks.status = "ok"

\* row i of the table is in the tick set: the set has a tick at its pixel
InTicks(set, i) ==
    \E k \in 1..Len(set.px) : set.px[k] = table[i].x /\ set.py[k] = table[i].y

\* C13: for every ticks table, the longitude ticks and the latitude ticks fineLoad
\* gives are disjoint: no row of the table is in both sets.
C13_TickSetsDisjoint ==
    Loaded =>
        \A i \in 1..Len(table) :
            ~(InTicks(ticks.lonTicks, i) /\ InTicks(ticks.latTicks, i))

\* (every row in both sets has longitude 0 and latitude 0)
OnlyOriginRowsShared ==
    Loaded =>
        \A i \in 1..Len(table) :
            (InTicks(ticks.lonTicks, i) /\ InTicks(ticks.latTicks, i))
                => (table[i].lon = 0 /\ table[i].lat = 0)

WorstCaseEvaluated == Loaded /\ cost # Unset /\ CostMode(cost.sse) = "worst-case"

\* the absolute residuals on the matching axis: of the longitude at each
\* longitude tick and of the latitude at each latitude tick
MatchingResiduals ==
    {Abs(cost.pixToLonlat[ticks.lonTicks.px[k]].lon - ticks.lonTicks.deg[k]) :
        k \in 1..Len(ticks.lonTicks.deg)}
    \cup
    {Abs(cost.pixToLonlat[ticks.latTicks.px[k]].lat - ticks.latTicks.deg[k]) :
        k \in 1..Len(ticks.latTicks.deg)}

\* the absolute residuals on the other axis
CrossResiduals ==
    {Abs(cost.pixToLonlat[ticks.lonTicks.px[k]].lat - table[ticks.lonTicks.px[k]].lat) :
        k \in 1..Len(ticks.lonTicks.deg)}
    \cup
    {Abs(cost.pixToLonlat[ticks.latTicks.px[k]].lon - table[ticks.latTicks.px[k]].lon) :
        k \in 1..Len(ticks.latTicks.deg)}

Greatest(S) == CHOOSE m \in S : \A r \in S : r <= m

BothTickSetsFilled == Len(ticks.lonTicks.deg) > 0 /\ Len(ticks.latTicks.deg) > 0

\* C12 as claimed: in worst-case mode the cost of a parameter vector is the
\* greatest absolute residual over the two tick sets, a longitude tick counting
\* by its longitude residual only and a latitude tick by its latitude residual.
C12_WorstCaseIsMaxAbs ==
    WorstCaseEvaluated =>
        /\ cost.out.status = "ok"
        /\ cost.out.fun = Greatest(MatchingResiduals)

\* C12 amended: in worst-case mode, with a tick in each of the two sets, the
\* cost of a parameter vector is the square of the greatest absolute residual
\* over the two tick sets, a longitude tick counting by its longitude residual
\* only and a latitude tick by its latitude residual only; with a tick set
\* empty, the evaluation raises ValueError.
C12_WorstCaseIsMaxSquared ==
    WorstCaseEvaluated =>
        IF BothTickSetsFilled
        THEN /\ cost.out.status = "ok"
             /\ cost.out.fun = Greatest(MatchingResiduals) * Greatest(MatchingResiduals)
        ELSE cost.out = Raise("ValueError")

\* a longitude tick and a latitude tick, the greatest matching residual 2 and a
\* greater residual on the other axis: the cost is 4
C12_Witness ==
    /\ WorstCaseEvaluated /\ BothTickSetsFilled
    /\ Greatest(MatchingResiduals) = 2
    /\ Greatest(CrossResiduals) > 2
    /\ cost.out.status = "ok" /\ cost.out.fun = 4

-----------------------------------------------------------------------------
(* Claims about the script's repeated worst-case refinement, checked under *)
(* SpecRefine.                                                             *)

\* the call of fine running, or just returned, follows a worst-case call
AfterWorstCaseCall == entry = "fine" /\ last # Unset /\ ~last.sse /\ ~sse

\* C15: in the script's successive fine(..., sse=False) calls, every call starts
\* from exactly the transform and the central longitude the call before
\* returned, and the worst-case cost a call returns is at most the worst-case
\* cost the call before returned.
C15_RefinementNonIncreasing ==
    AfterWorstCaseCall =>
        /\ listToParams(ParamVector[init]).A = last.transform.A
        /\ listToParams(ParamVector[init]).b = last.transform.b
        /\ listToParams(ParamVector[init]).p.lon_0 = last.transform.p.lon_0
        /\ objective[init] = last.fx
        /\ Done => ret.fx <= last.fx

\* the third worst-case call has returned a lower cost than the second, at
\* another vector than the one it started from
C15_Witness ==
    /\ AfterWorstCaseCall /\ Done /\ iter >= 2
    /\ ret.fx < last.fx /\ ret.x # init

-----------------------------------------------------------------------------
(* The program as a whole.                                                 *)

Init == InitSolver \/ InitAdapter \/ InitOptim \/ InitTicks \/ InitCodec

Next == NextSolver \/ NextAdapter \/ NextOptim \/ NextRefine \/ NextTicks \/ NextCodec

Spec == Init /\ [][Next]_vars

====
